---- MODULE Spec2Model ----
(***************************************************************************)
(* Simple Invoice Generator (src/invoice.py): the InvoiceApp form handlers *)
(* and the generate_pdf layout routine.                                    *)
(*                                                                         *)
(* Python floats are modelled as exact rationals with a sign bit; text is  *)
(* a sequence of one-character strings.                                    *)
(***************************************************************************)
EXTENDS Integers, Sequences, FiniteSets, TLC

VARIABLES
    items,          \* self.items: list of {"desc", "qty", "unit"} dicts
    items_list,     \* self.items_list: the texts of the Listbox rows
    discount_var,   \* text of self.discount_var
    subtotal_lbl,   \* text of self.subtotal_lbl
    total_lbl,      \* text of self.total_lbl
    logo_path,      \* self.logo_path: NoLogo (None) or the file the path names
    last_call,      \* the handler that ran last: what it read and what it showed
    pdf_args,       \* arguments of the generate_pdf call, NoCall if none
    pdf             \* what that generate_pdf call drew, NoPdf if none

vars == <<items, items_list, discount_var, subtotal_lbl, total_lbl, logo_path,
          last_call, pdf_args, pdf>>

-----------------------------------------------------------------------------
(* Bounds of the model *)

MaxItems == 2        \* items the form holds at most
MaxPdfItems == 2     \* items of a direct generate_pdf call at most
MaxImgSide == 3      \* logo image sides range over 1..MaxImgSide

-----------------------------------------------------------------------------
(* Exact rational arithmetic standing for Python float arithmetic.  A float *)
(* is [n, d, s]: the value n/d in lowest terms and the sign bit s, which    *)
(* tells 0.0 from -0.0.                                                     *)

Abs(x) == IF x < 0 THEN -x ELSE x

RECURSIVE GCD(_, _)
GCD(a, b) == IF b = 0 THEN a ELSE GCD(b, a % b)

\* the float n/d; a zero takes the sign bit z
Flt(n, d, z) ==
    LET g  == GCD(Abs(n), Abs(d))
        sg == IF d < 0 THEN -1 ELSE 1
        m  == (sg * n) \div g
    IN  [n |-> m, d |-> (sg * d) \div g, s |-> IF m = 0 THEN z ELSE m < 0]

Rat(n, d) == Flt(n, d, FALSE)
Int2Rat(k) == Rat(k, 1)
Zero == Int2Rat(0)

RNeg(a)    == [n |-> -a.n, d |-> a.d, s |-> ~a.s]
RAdd(a, b) == Flt(a.n * b.d + b.n * a.d, a.d * b.d, a.s /\ b.s)
RSub(a, b) == RAdd(a, RNeg(b))
RMul(a, b) == Flt(a.n * b.n, a.d * b.d, a.s # b.s)
RDiv(a, b) == Flt(a.n * b.d, a.d * b.n, a.s # b.s)
RLt(a, b)  == a.n * b.d < b.n * a.d
RLe(a, b)  == a.n * b.d <= b.n * a.d
REq(a, b)  == a.n * b.d = b.n * a.d

RECURSIVE Pow10(_)
Pow10(k) == IF k = 0 THEN 1 ELSE 10 * Pow10(k - 1)

-----------------------------------------------------------------------------
(* Text *)

DigitChars == <<"0", "1", "2", "3", "4", "5", "6", "7", "8", "9">>

IsDigit(ch) == \E i \in 1..10 : DigitChars[i] = ch
DigitVal(ch) == (CHOOSE i \in 1..10 : DigitChars[i] = ch) - 1

IsSpace(ch) == ch = " "

\* strip() left out
StripMut(t) == t

\* str.strip(): drop the leading and the trailing whitespace
RECURSIVE LStrip(_)
LStrip(t) == IF t # <<>> /\ IsSpace(Head(t)) THEN LStrip(Tail(t)) ELSE t

RECURSIVE RStrip(_)
RStrip(t) ==
    IF t # <<>> /\ IsSpace(t[Len(t)]) THEN RStrip(SubSeq(t, 1, Len(t) - 1)) ELSE t

Strip(t) == RStrip(LStrip(t))

\* decimal digits of a natural number, most significant first
RECURSIVE NatDigits(_)
NatDigits(k) ==
    IF k < 10 THEN <<DigitChars[k + 1]>>
    ELSE NatDigits(k \div 10) \o <<DigitChars[(k % 10) + 1]>>

\* value of a sequence of digit characters (empty = 0)
RECURSIVE DigitsVal(_)
DigitsVal(t) ==
    IF t = <<>> THEN 0
    ELSE 10 * DigitsVal(SubSeq(t, 1, Len(t) - 1)) + DigitVal(t[Len(t)])

AllDigits(t) == \A i \in 1..Len(t) : IsDigit(t[i])

\* the sign character a stripped text starts with, "" if none
SignChar(s) == IF s # <<>> /\ Head(s) \in {"-", "+"} THEN Head(s) ELSE ""

\* a stripped text without its sign character
Unsigned(s) == IF SignChar(s) # "" THEN Tail(s) ELSE s

\* the place of the first "." of body, Len(body) + 1 if it has none
DotAt(body) ==
    IF \E i \in 1..Len(body) : body[i] = "."
    THEN CHOOSE i \in 1..Len(body) :
             body[i] = "." /\ \A j \in 1..(i - 1) : body[j] # "."
    ELSE Len(body) + 1

\* digits before and after the point make a decimal number: digits only
\* (so no second point), and at least one of them
DecimalOk(ip, fp) == AllDigits(ip) /\ AllDigits(fp) /\ Len(ip) + Len(fp) >= 1

DecimalVal(ip, fp) ==
    Rat(DigitsVal(ip) * Pow10(Len(fp)) + DigitsVal(fp), Pow10(Len(fp)))

ParseDecimal(sign, ip, fp) ==
    IF ~DecimalOk(ip, fp) THEN [ok |-> FALSE, v |-> Zero]
    ELSE [ok |-> TRUE,
          v |-> IF sign = "-" THEN RNeg(DecimalVal(ip, fp)) ELSE DecimalVal(ip, fp)]

ParseBody(sign, body) ==
    ParseDecimal(sign, SubSeq(body, 1, DotAt(body) - 1),
                 SubSeq(body, DotAt(body) + 1, Len(body)))

\* float(text): [ok, v]; ok = FALSE is the ValueError of a malformed text
ParseFloat(text) == ParseBody(SignChar(Strip(text)), Unsigned(Strip(text)))

\* thousands grouping of the integer part, as the "," format option does
RECURSIVE Group(_)
Group(k) ==
    IF k < 1000 THEN NatDigits(k)
    ELSE Group(k \div 1000) \o <<",">>
         \o <<DigitChars[((k \div 100) % 10) + 1],
              DigitChars[((k \div 10) % 10) + 1],
              DigitChars[(k % 10) + 1]>>

\* v rounded to hundredths, ties to even: the number of hundredths of |v|
Cents(v) ==
    LET a == Abs(v.n) * 100
        q == a \div v.d
        r == a % v.d
    IN  IF 2 * r > v.d \/ (2 * r = v.d /\ q % 2 = 1) THEN q + 1 ELSE q

\* f"{v:,.2f}"
Fmt2(v) ==
    LET c == Cents(v)
    IN  (IF v.s THEN <<"-">> ELSE <<>>)
        \o Group(c \div 100) \o <<".">>
        \o <<DigitChars[((c \div 10) % 10) + 1], DigitChars[(c % 10) + 1]>>

\* digits of the fraction r/d (0 <= r < d) of a terminating decimal
RECURSIVE FracDigits(_, _)
FracDigits(r, d) ==
    IF r = 0 THEN <<>>
    ELSE <<DigitChars[((r * 10) \div d) + 1]>> \o FracDigits((r * 10) % d, d)

\* str(v) of a float v that is a short terminating decimal
StrFloat(v) ==
    LET a  == Abs(v.n)
        fd == FracDigits(a % v.d, v.d)
    IN  (IF v.s THEN <<"-">> ELSE <<>>)
        \o NatDigits(a \div v.d) \o <<".">>
        \o (IF fd = <<>> THEN <<"0">> ELSE fd)

-----------------------------------------------------------------------------
(* PDF generation: generate_pdf *)

\* reportlab.lib.units.mm = 72 / 25.4 points
mm == Rat(360, 127)
MM(k) == RMul(Int2Rat(k), mm)

\* reportlab.lib.pagesizes.A4 = (210 * mm, 297 * mm)
PAGE_WIDTH == MM(210)
PAGE_HEIGHT == MM(297)

left_margin == MM(20)
right_margin == RSub(PAGE_WIDTH, MM(20))
top == RSub(PAGE_HEIGHT, MM(20))
logo_width_mm == MM(40)
logo_height_mm == MM(25)
table_top == RSub(top, MM(55))

max_chars == 50
line_height == 11
low_margin_mm == 40

\* the page-break threshold 40 * mm and the cursor after a break
LowMargin == MM(low_margin_mm)
PageTopY == RSub(PAGE_HEIGHT, MM(low_margin_mm))

NoLogo == [kind |-> "none"]

\* LogoBox with target_w = logo_height_mm * aspect in the height-limited case
LogoBoxMut(img_w, img_h) ==
    LET aspect == RDiv(Int2Rat(img_h), Int2Rat(img_w))
        th0 == RMul(logo_width_mm, aspect)
    IN  IF RLt(logo_height_mm, th0)
        THEN [w |-> RMul(logo_height_mm, aspect), h |-> logo_height_mm]
        ELSE [w |-> logo_width_mm, h |-> th0]

\* target_w, target_h of the logo for an image of img_w x img_h pixels
LogoBox(img_w, img_h) ==
    LET aspect == RDiv(Int2Rat(img_h), Int2Rat(img_w))
        tw0 == logo_width_mm
        th0 == RMul(logo_width_mm, aspect)
    IN  IF RLt(logo_height_mm, th0)
        THEN [w |-> RDiv(logo_height_mm, aspect), h |-> logo_height_mm]
        ELSE [w |-> tw0, h |-> th0]

\* the drawImage call, if any: the path is set, the file exists and
\* Image.open decodes it; any exception is caught and printed
DrawLogo(logo) ==
    IF logo.kind = "image" /\ logo.exists /\ logo.decodable
    THEN LET b == LogoBox(logo.w, logo.h)
         IN  <<[x |-> left_margin, y |-> RSub(RSub(top, b.h), MM(5)),
                width |-> b.w, height |-> b.h]>>
    ELSE <<>>

\* dict.get(key, default)
Get(it, key, default) == IF key \in DOMAIN it THEN it[key] ELSE default

\* range(start, stop, step)
RECURSIVE Range(_, _, _)
Range(start, stop, step) ==
    IF start >= stop THEN <<>> ELSE <<start>> \o Range(start + step, stop, step)

Min(a, b) == IF a < b THEN a ELSE b

\* t[i:j] for 0 <= i <= j
Slice(t, i, j) == SubSeq(t, i + 1, Min(j, Len(t)))

\* WrapLines with the slices desc[i:i+max_chars-1]
WrapLinesMut(desc) ==
    IF desc = <<>> THEN << <<>> >>
    ELSE LET r == Range(0, Len(desc), max_chars)
         IN  [k \in DOMAIN r |-> Slice(desc, r[k], r[k] + max_chars - 1)]

\* lines = [desc[i:i+max_chars] for i in range(0, len(desc), max_chars)] if desc else [""]
WrapLines(desc) ==
    IF desc = <<>> THEN << <<>> >>
    ELSE LET r == Range(0, Len(desc), max_chars)
         IN  [k \in DOMAIN r |-> Slice(desc, r[k], r[k] + max_chars)]

\* one drawString / drawRightString call: where, what, on which page; it and
\* li name the item and the wrapped line it belongs to (0 outside the rows)
Draw(op, x, y, text, page, kind, it, li) ==
    [op |-> op, x |-> x, y |-> y, text |-> text, page |-> page,
     kind |-> kind, it |-> it, li |-> li]

\* AfterLine with a page break that leaves the cursor where it is
AfterLineMut(st) ==
    LET y1 == RSub(st.y, Int2Rat(line_height))
    IN  IF RLt(y1, LowMargin)
        THEN [st EXCEPT !.y = y1, !.page = @ + 1]
        ELSE [st EXCEPT !.y = y1]

\* the cursor after a line: y -= 11, and a page break if y < 40 * mm
AfterLine(st) ==
    LET y1 == RSub(st.y, Int2Rat(line_height))
    IN  IF RLt(y1, LowMargin)
        THEN [st EXCEPT !.y = PageTopY, !.page = @ + 1]
        ELSE [st EXCEPT !.y = y1]

\* the draw calls of line li (0-based) of item number it
LineDraws(st, it, li, line, qty, unit, total) ==
    IF li = 0
    THEN <<Draw("drawString", left_margin, st.y, line, st.page, "desc", it, li),
           Draw("drawRightString", RAdd(left_margin, MM(120)), st.y,
                StrFloat(qty), st.page, "qty", it, li),
           Draw("drawRightString", RAdd(left_margin, MM(150)), st.y,
                Fmt2(unit), st.page, "unit", it, li),
           Draw("drawRightString", right_margin, st.y,
                Fmt2(total), st.page, "total", it, li)>>
    ELSE <<Draw("drawString", left_margin, st.y, line, st.page, "desc", it, li)>>

\* for li, line in enumerate(lines): ..., from line number k + 1 on
\* (the test of nxt.page has TLC evaluate nxt before it goes on to the next
\* line, which keeps the evaluation stack shallow; page numbers start at 1)
RECURSIVE DrawLines(_, _, _, _, _, _, _)
DrawLines(st, it, lines, k, qty, unit, total) ==
    IF k >= Len(lines) THEN st
    ELSE LET drawn == [st EXCEPT !.draws =
                           @ \o LineDraws(st, it, k, lines[k + 1], qty, unit, total)]
             nxt == AfterLine(drawn)
         IN  IF nxt.page >= 1
             THEN DrawLines(nxt, it, lines, k + 1, qty, unit, total)
             ELSE nxt

\* the body of "for it in items", for item number i
DrawItem(st, i, item) ==
    LET desc  == Get(item, "desc", <<>>)
        qty   == Get(item, "qty", Zero)
        unit  == Get(item, "unit", Zero)
        total == RMul(qty, unit)
        st1   == [st EXCEPT !.subtotal = RAdd(@, total)]
    IN  DrawLines(st1, i, WrapLines(desc), 0, qty, unit, total)

\* for it in items: ..., from item number i on
RECURSIVE DrawItems(_, _, _)
DrawItems(st, its, i) ==
    IF i > Len(its) THEN st ELSE DrawItems(DrawItem(st, i, its[i]), its, i + 1)

\* DiscountAmount without the division by 100
DiscountAmountMut(subtotal, discount_percent) == RMul(subtotal, discount_percent)

\* subtotal * (discount_percent / 100.0)
DiscountAmount(subtotal, discount_percent) ==
    RMul(subtotal, RDiv(discount_percent, Int2Rat(100)))

\* subtotal - discount_amount
TotalDue(subtotal, discount_amount) == RSub(subtotal, discount_amount)

\* the totals block drawn after the rows
DrawTotals(st, discount_percent) ==
    LET y1 == RSub(st.y, Int2Rat(8))
        y2 == RSub(y1, Int2Rat(12))
        y3 == RSub(y2, Int2Rat(12))
        discount_amount == DiscountAmount(st.subtotal, discount_percent)
        total_due == TotalDue(st.subtotal, discount_amount)
    IN  [y |-> RSub(y3, Int2Rat(25)),
         page |-> st.page,
         subtotal |-> st.subtotal,
         discount_percent |-> discount_percent,
         discount_amount |-> discount_amount,
         total_due |-> total_due,
         draws |-> st.draws \o
            <<Draw("drawRightString", right_margin, y1, Fmt2(st.subtotal),
                   st.page, "subtotal", 0, 0),
              Draw("drawRightString", right_margin, y2,
                   <<"-">> \o Fmt2(discount_amount), st.page, "discount", 0, 0),
              Draw("drawRightString", right_margin, y3, Fmt2(total_due),
                   st.page, "total_due", 0, 0)>>]

\* generate_pdf(output_path, company_info, logo_path, items, discount_percent,
\* invoice_meta): the logo box, the row and totals values drawn, the pages
\* shown, and whether c.save() raised (it does when output_path cannot be
\* written).  The header block, the fixed labels and the notes are drawn at
\* positions of their own and move neither the row cursor nor the totals.
generate_pdf(output_path, logo, its, discount_percent) ==
    LET st0 == [y |-> RSub(table_top, Int2Rat(10)), page |-> 1,
                subtotal |-> Zero, draws |-> <<>>]
        st1 == DrawItems(st0, its, 1)
        st2 == DrawTotals(st1, discount_percent)
    IN  [logo |-> DrawLogo(logo),
         draws |-> st2.draws,
         pages |-> st2.page,
         subtotal |-> st2.subtotal,
         discount_percent |-> st2.discount_percent,
         discount_amount |-> st2.discount_amount,
         total_due |-> st2.total_due,
         raised |-> ~output_path.writable]

-----------------------------------------------------------------------------
(* The form: InvoiceApp *)

CURRENCY == <<"U", "S", "D">>

\* money(v) of a float v
money(v) == Fmt2(v) \o <<" ">> \o CURRENCY

\* TryFloat without the except branch: the ValueError leaves the handler
TryFloatMut(text) ==
    LET p == ParseFloat(text)
    IN  [v |-> p.v, isint |-> FALSE, exc |-> ~p.ok]

\* try: x = float(text) / except Exception: x = 0
\* v is the value, isint tells the int 0 of the except branch from a float,
\* exc tells whether an exception leaves the try statement
TryFloat(text) ==
    LET p == ParseFloat(text)
    IN  IF p.ok THEN [v |-> p.v, isint |-> FALSE, exc |-> FALSE]
        ELSE [v |-> Zero, isint |-> TRUE, exc |-> FALSE]

\* f"{x}" of a float or of the int 0
StrNum(x) == IF x.isint THEN NatDigits(0) ELSE StrFloat(x.v)

\* f"{desc} [em dash] {qty} [times sign] {unit:,.2f} = {qty*unit:,.2f}"; the two
\* non-ASCII characters are the one-character texts "EMDASH" and "TIMES"
ListboxText(desc, qty, unit) ==
    desc \o <<" ", "EMDASH", " ">> \o StrNum(qty) \o <<" ", "TIMES", " ">>
    \o Fmt2(unit.v) \o <<" ", "=", " ">> \o Fmt2(RMul(qty.v, unit.v))

\* subtotal of update_totals: 0.0 + float(qty) * float(unit) over self.items
RECURSIVE Subtotal(_)
Subtotal(its) ==
    IF its = <<>> THEN Zero
    ELSE RAdd(Subtotal(SubSeq(its, 1, Len(its) - 1)),
              RMul(Get(its[Len(its)], "qty", Zero), Get(its[Len(its)], "unit", Zero)))

\* max(0.0, disc)
ClampDiscount(disc) == IF RLt(Zero, disc) THEN disc ELSE Zero

\* update_totals: the texts of the two labels, <<subtotal_lbl, total_lbl>>
TotalsLabels(its, discount_text) ==
    LET subtotal == Subtotal(its)
        disc == ClampDiscount(TryFloat(discount_text).v)
        discount_amount == RMul(subtotal, RDiv(disc, Int2Rat(100)))
        total == RSub(subtotal, discount_amount)
    IN  <<money(subtotal), money(total)>>

\* the discount_percent generate_invoice_pdf passes on
DiscountPercent(discount_text) == TryFloat(discount_text).v

\* a sequence without its element number idx, idx 0-based
DelAt(seq, idx) == SubSeq(seq, 1, idx) \o SubSeq(seq, idx + 2, Len(seq))

\* del self.items[-1] in place of del self.items[idx]
DelItemMut(its, idx) == SubSeq(its, 1, Len(its) - 1)

\* the emptiness test of generate_invoice_pdf left out
NoItemsMut(its) == FALSE

\* del self.items[idx]
DelItem(its, idx) == DelAt(its, idx)

\* self.items_list.delete(idx)
ListboxDelete(rows, idx) == DelAt(rows, idx)

\* "if not self.items" of generate_invoice_pdf
NoItems(its) == its = <<>>

NoCall == [called |-> FALSE]
NoPdf == [drawn |-> FALSE]

Ran(op, read, dialogs, raised) ==
    [op |-> op, read |-> read, dialogs |-> dialogs, raised |-> raised]

\* texts the user types into the entries
Pattern == <<"a", "b", "c", "d", "e", "f", "g">>
PatternText(len) == [i \in 1..len |-> Pattern[(i % 7) + 1]]

DescTexts == {<<>>, <<" ", " ">>, <<" ", "a", " ", "b", " ">>}
QtyTexts == {<<"2">>, <<"-", "1">>, <<"x">>}
UnitTexts == {<<"1", "0", "0", ".", "0", "0">>, <<>>}
DiscountTexts == {<<"1", "0">>, <<"-", "5">>, <<"a", "b", "c">>}

\* files the file dialogs can name
LogoFiles == {[kind |-> "image", exists |-> TRUE, decodable |-> TRUE, w |-> 2, h |-> 1]}
SavePaths == {[chosen |-> FALSE, writable |-> FALSE],
              [chosen |-> TRUE, writable |-> TRUE],
              [chosen |-> TRUE, writable |-> FALSE]}

Init ==
    /\ items = <<>>
    /\ items_list = <<>>
    /\ discount_var = <<"0">>
    /\ subtotal_lbl = money(Zero)
    /\ total_lbl = money(Zero)
    /\ logo_path = NoLogo
    /\ last_call = Ran("__init__", <<>>, <<>>, FALSE)
    /\ pdf_args = NoCall
    /\ pdf = NoPdf

\* the user edits the discount entry
EditDiscount(text) ==
    /\ discount_var' = text
    /\ last_call' = Ran("edit_discount", <<text>>, <<>>, FALSE)
    /\ pdf_args' = NoCall
    /\ pdf' = NoPdf
    /\ UNCHANGED <<items, items_list, subtotal_lbl, total_lbl, logo_path>>

\* load_logo, p the file the dialog returns (NoLogo: cancelled)
load_logo(p) ==
    /\ IF p # NoLogo
       THEN /\ logo_path' = p
            /\ last_call' = Ran("load_logo", <<p>>, <<"showinfo">>, FALSE)
       ELSE /\ logo_path' = logo_path
            /\ last_call' = Ran("load_logo", <<p>>, <<>>, FALSE)
    /\ pdf_args' = NoCall
    /\ pdf' = NoPdf
    /\ UNCHANGED <<items, items_list, discount_var, subtotal_lbl, total_lbl>>

\* add_item, with the texts of the three entries
add_item(desc_text, qty_text, unit_text) ==
    LET desc == Strip(desc_text)
        qty  == TryFloat(qty_text)
        unit == TryFloat(unit_text)
        read == <<desc_text, qty_text, unit_text>>
    IN  /\ Len(items) < MaxItems
        /\ pdf_args' = NoCall
        /\ pdf' = NoPdf
        /\ IF qty.exc \/ unit.exc
           THEN /\ last_call' = Ran("add_item", read, <<>>, TRUE)
                /\ UNCHANGED <<items, items_list, discount_var, subtotal_lbl,
                               total_lbl, logo_path>>
           ELSE IF desc = <<>>
           THEN /\ last_call' = Ran("add_item", read, <<"showwarning">>, FALSE)
                /\ UNCHANGED <<items, items_list, discount_var, subtotal_lbl,
                               total_lbl, logo_path>>
           ELSE LET its == Append(items, [desc |-> desc, qty |-> qty.v, unit |-> unit.v])
                    lbl == TotalsLabels(its, discount_var)
                IN  /\ items' = its
                    /\ items_list' = Append(items_list, ListboxText(desc, qty, unit))
                    /\ subtotal_lbl' = lbl[1]
                    /\ total_lbl' = lbl[2]
                    /\ last_call' = Ran("add_item", read, <<>>, FALSE)
                    /\ UNCHANGED <<discount_var, logo_path>>

\* remove_selected, sel = curselection() as a sequence of 0-based indices
remove_selected(sel) ==
    /\ pdf_args' = NoCall
    /\ pdf' = NoPdf
    /\ last_call' = Ran("remove_selected", <<sel>>, <<>>, FALSE)
    /\ IF sel = <<>>
       THEN UNCHANGED <<items, items_list, discount_var, subtotal_lbl, total_lbl,
                        logo_path>>
       ELSE LET idx == sel[1]
                its == DelItem(items, idx)
                lbl == TotalsLabels(its, discount_var)
            IN  /\ items_list' = ListboxDelete(items_list, idx)
                /\ items' = its
                /\ subtotal_lbl' = lbl[1]
                /\ total_lbl' = lbl[2]
                /\ UNCHANGED <<discount_var, logo_path>>

\* clear_items, yes = the answer to the askyesno dialog
clear_items(yes) ==
    /\ pdf_args' = NoCall
    /\ pdf' = NoPdf
    /\ last_call' = Ran("clear_items", <<yes>>, <<"askyesno">>, FALSE)
    /\ IF yes
       THEN LET lbl == TotalsLabels(<<>>, discount_var)
            IN  /\ items' = <<>>
                /\ items_list' = <<>>
                /\ subtotal_lbl' = lbl[1]
                /\ total_lbl' = lbl[2]
                /\ UNCHANGED <<discount_var, logo_path>>
       ELSE UNCHANGED <<items, items_list, discount_var, subtotal_lbl, total_lbl,
                        logo_path>>

\* update_totals, from the "Calculate Totals" button
update_totals ==
    LET lbl == TotalsLabels(items, discount_var)
    IN  /\ subtotal_lbl' = lbl[1]
        /\ total_lbl' = lbl[2]
        /\ last_call' = Ran("update_totals", <<discount_var>>, <<>>,
                            TryFloat(discount_var).exc)
        /\ pdf_args' = NoCall
        /\ pdf' = NoPdf
        /\ UNCHANGED <<items, items_list, discount_var, logo_path>>

\* generate_invoice_pdf, save_path the file the save dialog returns
generate_invoice_pdf(save_path) ==
    /\ UNCHANGED <<items, items_list, discount_var, subtotal_lbl, total_lbl, logo_path>>
    /\ IF NoItems(items)
       THEN /\ last_call' = Ran("generate_invoice_pdf", <<>>, <<"showwarning">>, FALSE)
            /\ pdf_args' = NoCall
            /\ pdf' = NoPdf
       ELSE IF TryFloat(discount_var).exc
       THEN /\ last_call' = Ran("generate_invoice_pdf", <<discount_var>>, <<>>, TRUE)
            /\ pdf_args' = NoCall
            /\ pdf' = NoPdf
       ELSE IF ~save_path.chosen
       THEN /\ last_call' = Ran("generate_invoice_pdf", <<discount_var, save_path>>,
                                <<"asksaveasfilename">>, FALSE)
            /\ pdf_args' = NoCall
            /\ pdf' = NoPdf
       ELSE LET discount_percent == DiscountPercent(discount_var)
                out == generate_pdf(save_path, logo_path, items, discount_percent)
            IN  /\ pdf_args' = [called |-> TRUE, output_path |-> save_path,
                                logo |-> logo_path, items |-> items,
                                discount_percent |-> discount_percent]
                /\ pdf' = [drawn |-> TRUE, out |-> out]
                /\ last_call' = Ran("generate_invoice_pdf", <<discount_var, save_path>>,
                                    <<"asksaveasfilename",
                                      IF out.raised THEN "showerror" ELSE "showinfo">>,
                                    FALSE)

Selections == {<<>>} \cup {<<i>> : i \in 0..(Len(items_list) - 1)}

Next ==
    \/ \E t \in DiscountTexts : EditDiscount(t)
    \/ \E p \in LogoFiles \cup {NoLogo} : load_logo(p)
    \/ \E d \in DescTexts, q \in QtyTexts, u \in UnitTexts : add_item(d, q, u)
    \/ \E sel \in Selections : remove_selected(sel)
    \/ \E yes \in BOOLEAN : clear_items(yes)
    \/ update_totals
    \/ \E p \in SavePaths : generate_invoice_pdf(p)

Spec == Init /\ [][Next]_vars

-----------------------------------------------------------------------------
(* generate_pdf called directly, on bounded inputs *)

Dec(n, d) == Rat(n, d)

PdfItems ==
    {[desc |-> <<>>, qty |-> Int2Rat(2), unit |-> Int2Rat(100)],
     [desc |-> PatternText(10), qty |-> Int2Rat(2), unit |-> Int2Rat(100)],
     [desc |-> PatternText(max_chars), qty |-> Dec(3, 2), unit |-> Dec(1, 2)],
     [desc |-> PatternText(max_chars + 1), qty |-> Int2Rat(1), unit |-> Dec(1999, 100)],
     [desc |-> PatternText(2 * max_chars + 1)],
     [desc |-> PatternText(24 * max_chars), qty |-> Int2Rat(3), unit |-> Dec(5, 4)]}

PdfItemLists == UNION {[1..k -> PdfItems] : k \in 0..MaxPdfItems}

PdfDiscounts == {Zero, Int2Rat(10), Dec(25, 2), Int2Rat(150)}

ImgSides == 1..MaxImgSide

PdfLogos ==
    {NoLogo,
     [kind |-> "image", exists |-> FALSE, decodable |-> FALSE, w |-> 1, h |-> 1],
     [kind |-> "image", exists |-> TRUE, decodable |-> FALSE, w |-> 1, h |-> 1],
     [kind |-> "image", exists |-> TRUE, decodable |-> TRUE, w |-> 8, h |-> 5]}
    \cup {[kind |-> "image", exists |-> TRUE, decodable |-> TRUE, w |-> w, h |-> h] :
            w \in ImgSides, h \in ImgSides}

PdfPaths == {[chosen |-> TRUE, writable |-> TRUE], [chosen |-> TRUE, writable |-> FALSE]}

InitPdf ==
    /\ items = <<>>
    /\ items_list = <<>>
    /\ discount_var = <<"0">>
    /\ subtotal_lbl = money(Zero)
    /\ total_lbl = money(Zero)
    /\ logo_path = NoLogo
    /\ last_call = Ran("__init__", <<>>, <<>>, FALSE)
    /\ pdf = NoPdf
    /\ \E its \in PdfItemLists, d \in PdfDiscounts, logo \in PdfLogos, p \in PdfPaths :
          pdf_args = [called |-> TRUE, output_path |-> p, logo |-> logo,
                      items |-> its, discount_percent |-> d]

\* the call of generate_pdf on the chosen arguments
CallGeneratePdf ==
    /\ pdf_args.called
    /\ ~pdf.drawn
    /\ pdf' = [drawn |-> TRUE,
               out |-> generate_pdf(pdf_args.output_path, pdf_args.logo,
                                    pdf_args.items, pdf_args.discount_percent)]
    /\ UNCHANGED <<items, items_list, discount_var, subtotal_lbl, total_lbl,
                   logo_path, last_call, pdf_args>>

NextPdf == CallGeneratePdf

SpecPdf == InitPdf /\ [][NextPdf]_vars

-----------------------------------------------------------------------------
(* Properties of generate_pdf *)

\* the result of the call and its arguments
Out == pdf.out
ArgItems == pdf_args.items
ArgDiscount == pdf_args.discount_percent

\* the fraction n / d in lowest terms, d > 0
Frac(n, d) == [n |-> n \div GCD(Abs(n), d), d |-> d \div GCD(Abs(n), d)]

\* the same value
SameValue(a, b) == a.n * b.d = b.n * a.d

\* the sum of qty * unit over the items from number i on, as a fraction
RECURSIVE LineTotalSum(_, _)
LineTotalSum(its, i) ==
    IF i > Len(its) THEN Frac(0, 1)
    ELSE LET q == Get(its[i], "qty", Zero)
             u == Get(its[i], "unit", Zero)
             r == LineTotalSum(its, i + 1)
         IN  Frac(q.n * u.n * r.d + r.n * q.d * u.d, q.d * u.d * r.d)

\* the value drawn by the totals line of the given kind
DrawnText(kind) ==
    LET d == CHOOSE d \in {Out.draws[i] : i \in DOMAIN Out.draws} : d.kind = kind
    IN  d.text

TotalsDrawnOnce ==
    \A kind \in {"subtotal", "discount", "total_due"} :
        Cardinality({i \in DOMAIN Out.draws : Out.draws[i].kind = kind}) = 1

\* C1: for every item list and every discount_percent D >= 0, the drawn
\* Subtotal S is the sum of qty * unit over all items, the drawn discount is
\* S * D / 100 and the drawn Total Due is S - S * D / 100; one item of qty 2
\* and unit 100.00 with D = 10 draws 200.00, 20.00 and 180.00.
C1_Totals ==
    (pdf.drawn /\ RLe(Zero, ArgDiscount)) =>
        LET S   == LineTotalSum(ArgItems, 1)
            D   == ArgDiscount
            \* S * D / 100 and S - S * D / 100 as fractions
            SD  == Frac(S.n * D.n, S.d * D.d * 100)
            T   == Frac(S.n * SD.d - SD.n * S.d, S.d * SD.d)
        IN  /\ TotalsDrawnOnce
            /\ SameValue(Out.subtotal, S)
            /\ SameValue(Out.discount_amount, SD)
            /\ SameValue(Out.total_due, T)
            /\ DrawnText("subtotal") = Fmt2(Out.subtotal)
            /\ DrawnText("discount") = <<"-">> \o Fmt2(Out.discount_amount)
            /\ DrawnText("total_due") = Fmt2(Out.total_due)
            /\ (/\ Len(ArgItems) = 1
                /\ Get(ArgItems[1], "qty", Zero) = Int2Rat(2)
                /\ Get(ArgItems[1], "unit", Zero) = Int2Rat(100)
                /\ D = Int2Rat(10))
               => /\ DrawnText("subtotal") = <<"2", "0", "0", ".", "0", "0">>
                  /\ DrawnText("discount") = <<"-", "2", "0", ".", "0", "0">>
                  /\ DrawnText("total_due") = <<"1", "8", "0", ".", "0", "0">>

\* the scenario of C1 has been drawn
C1_Witness ==
    /\ pdf.drawn
    /\ Len(ArgItems) = 1
    /\ Get(ArgItems[1], "desc", <<>>) # <<>>
    /\ Get(ArgItems[1], "qty", Zero) = Int2Rat(2)
    /\ Get(ArgItems[1], "unit", Zero) = Int2Rat(100)
    /\ ArgDiscount = Int2Rat(10)
    /\ DrawnText("total_due") = <<"1", "8", "0", ".", "0", "0">>

\* the description lines drawn, in drawing order
IsDescDraw(d) == d.kind = "desc"
DescDraws == SelectSeq(Out.draws, IsDescDraw)

\* 40 mm and 297 mm - 40 mm in points, as fractions of 127
Threshold == [n |-> 40 * 360, d |-> 127]
ResetY == [n |-> (297 - 40) * 360, d |-> 127]
\* the cursor at the first row: 297 mm - 20 mm - 55 mm - 10 points
FirstY == [n |-> (297 - 20 - 55) * 360 - 10 * 127, d |-> 127]

\* C3: every row line drawn, first line or continuation line, is drawn with
\* y >= 40 mm; when the cursor falls below 40 mm after a line the page is
\* closed and the next line is drawn at height - 40 mm on the next page,
\* otherwise 11 points lower on the same page; rows that exceed the usable
\* height of the first page give at least 2 pages.
C3_Pagination ==
    pdf.drawn =>
        LET L == DescDraws
        IN  /\ \A i \in DOMAIN Out.draws :
                  Out.draws[i].it > 0 => RLe(Threshold, Out.draws[i].y)
            /\ L # <<>> => (L[1].page = 1 /\ REq(L[1].y, FirstY))
            /\ \A k \in 1..(Len(L) - 1) :
                  IF (L[k].y.n - 11 * L[k].y.d) * Threshold.d < Threshold.n * L[k].y.d
                  THEN L[k + 1].page = L[k].page + 1 /\ REq(L[k + 1].y, ResetY)
                  ELSE /\ L[k + 1].page = L[k].page
                       /\ L[k + 1].y.n * L[k].y.d = (L[k].y.n - 11 * L[k].y.d) * L[k + 1].y.d
            /\ (FirstY.n - 11 * Len(L) * FirstY.d) * Threshold.d < Threshold.n * FirstY.d
                  => Out.pages >= 2
            /\ \A i \in DOMAIN Out.draws : Out.draws[i].page <= Out.pages

\* a row line has been drawn on the second page, at the reset cursor
C3_Witness ==
    /\ pdf.drawn
    /\ \E i \in DOMAIN Out.draws :
          /\ Out.draws[i].it > 0
          /\ Out.draws[i].page = 2
          /\ REq(Out.draws[i].y, ResetY)
    /\ \E i \in DOMAIN Out.draws : Out.draws[i].it > 0 /\ Out.draws[i].li > 0
                                   /\ Out.draws[i].page = 2

\* the description lines of item number i, in drawing order
ItemLines(i) ==
    LET idx == {k \in DOMAIN DescDraws : DescDraws[k].it = i}
    IN  [j \in 1..Cardinality(idx) |->
            DescDraws[CHOOSE k \in idx : Cardinality({m \in idx : m < k}) = j - 1]]

RECURSIVE ConcatTexts(_, _)
ConcatTexts(lines, j) ==
    IF j > Len(lines) THEN <<>> ELSE lines[j].text \o ConcatTexts(lines, j + 1)

\* C4: a description of length L >= 1 is emitted as exactly ceil(L / 50)
\* lines of at most 50 characters each whose concatenation in order is the
\* description; an empty description is emitted as exactly one blank line;
\* the cursor advances by 11 once per emitted line.
C4_Wrapping ==
    pdf.drawn =>
        /\ \A i \in DOMAIN ArgItems :
              LET desc  == Get(ArgItems[i], "desc", <<>>)
                  lines == ItemLines(i)
              IN  /\ Len(lines) = IF desc = <<>> THEN 1 ELSE (Len(desc) + 49) \div 50
                  /\ \A j \in DOMAIN lines : Len(lines[j].text) <= 50 /\ lines[j].li = j - 1
                  /\ ConcatTexts(lines, 1) = desc
                  /\ desc # <<>> => \A j \in DOMAIN lines : lines[j].text # <<>>
        /\ \A k \in DOMAIN DescDraws : DescDraws[k].it \in DOMAIN ArgItems
        /\ \A k \in 1..(Len(DescDraws) - 1) :
              DescDraws[k + 1].page = DescDraws[k].page =>
                 DescDraws[k + 1].y.n * DescDraws[k].y.d
                    = (DescDraws[k].y.n - 11 * DescDraws[k].y.d) * DescDraws[k + 1].y.d
        \* the subtotal is drawn 8 below the cursor left by the last line
        /\ (DescDraws # <<>> /\ Out.pages = DescDraws[Len(DescDraws)].page) =>
              LET last == DescDraws[Len(DescDraws)]
                  sub  == CHOOSE d \in {Out.draws[i] : i \in DOMAIN Out.draws} :
                              d.kind = "subtotal"
              IN  sub.y.n * last.y.d = (last.y.n - (11 + 8) * last.y.d) * sub.y.d

\* an empty description and one of 101 characters have been drawn
C4_Witness ==
    /\ pdf.drawn
    /\ \E i \in DOMAIN ArgItems :
          Get(ArgItems[i], "desc", <<>>) = <<>> /\ Len(ItemLines(i)) = 1
    /\ \E i \in DOMAIN ArgItems :
          Len(Get(ArgItems[i], "desc", <<>>)) = 101 /\ Len(ItemLines(i)) = 3

\* C9: for a decodable image of W x H pixels the logo is drawn target_w wide
\* and target_h high with target_w <= 40 mm, target_h <= 25 mm,
\* target_w * H = target_h * W, and one of the two limits reached exactly.
C9_LogoBox ==
    (pdf.drawn /\ pdf_args.logo.kind = "image" /\ pdf_args.logo.exists
               /\ pdf_args.logo.decodable) =>
        /\ Len(Out.logo) = 1
        /\ LET b == Out.logo[1]
               W == pdf_args.logo.w
               H == pdf_args.logo.h
               \* 127 * 40 mm and 127 * 25 mm in points
               w40 == 40 * 360
               h25 == 25 * 360
           IN  /\ b.width.n * 127 <= w40 * b.width.d
               /\ b.height.n * 127 <= h25 * b.height.d
               /\ b.width.n > 0 /\ b.height.n > 0
               /\ b.width.n * H * b.height.d = b.height.n * W * b.width.d
               /\ \/ b.width.n * 127 = w40 * b.width.d
                  \/ b.height.n * 127 = h25 * b.height.d

\* a square image has been drawn, limited by the height of the box
C9_Witness ==
    /\ pdf.drawn
    /\ pdf_args.logo.kind = "image" /\ pdf_args.logo.exists /\ pdf_args.logo.decodable
    /\ pdf_args.logo.w = 1 /\ pdf_args.logo.h = 1
    /\ Len(Out.logo) = 1
    /\ Out.logo[1].height = MM(25)
    /\ Out.logo[1].width = MM(25)

-----------------------------------------------------------------------------
(* Properties of the form *)

\* texts that are no numbers
Malformed == {<<>>, <<"x">>, <<"a", "b", "c">>}

\* only whitespace, or empty
Blank(t) == \A i \in DOMAIN t : t[i] = " "

Accepted == last_call.op = "add_item" /\ last_call.dialogs = <<>> /\ ~last_call.raised

\* C2: the discount_percent that generate_invoice_pdf passes to generate_pdf,
\* and that generate_pdf uses, is never negative.
C2_DiscountClamped ==
    pdf_args.called =>
        /\ pdf_args.discount_percent.n >= 0
        /\ pdf.drawn => pdf.out.discount_percent.n >= 0

\* C5: generate_pdf is invoked only when the item list is non-empty; with an
\* empty list generate_invoice_pdf shows the warning and nothing else: no
\* save dialog, no rendering, no file.
C5_NoEmptyInvoice ==
    /\ (pdf_args.called \/ pdf.drawn) =>
          /\ items # <<>>
          /\ pdf_args.items = items
          /\ last_call.op = "generate_invoice_pdf"
    /\ (last_call.op = "generate_invoice_pdf" /\ items = <<>>) =>
          /\ last_call.dialogs = <<"showwarning">>
          /\ ~pdf_args.called
          /\ ~pdf.drawn

\* generate_invoice_pdf has been rejected on an empty list
C5_Witness ==
    /\ last_call.op = "generate_invoice_pdf"
    /\ items = <<>>
    /\ items_list = <<>>
    /\ last_call.dialogs = <<"showwarning">>

\* C6: add_item with an empty or whitespace-only description shows a warning
\* and leaves the item list and the listbox unchanged, and no item with an
\* empty description is ever in the item list.
C6_BlankRejected ==
    /\ [](\A i \in DOMAIN items : items[i].desc # <<>> /\ ~Blank(items[i].desc))
    /\ [][(last_call'.op = "add_item" /\ Blank(last_call'.read[1])) =>
             /\ items' = items
             /\ items_list' = items_list
             /\ last_call'.dialogs = <<"showwarning">>]_vars

\* a whitespace-only description has been rejected with items in the list
C6_Witness ==
    /\ last_call.op = "add_item"
    /\ last_call.read[1] = <<" ", " ">>
    /\ last_call.read[2] = <<"2">>
    /\ last_call.dialogs = <<"showwarning">>
    /\ Len(items) >= 1

\* C7: a quantity, unit price or discount text that is no number counts as
\* 0: add_item stores qty = 0 / unit = 0 and still adds the item, update_totals
\* and generate_invoice_pdf use discount 0, and no handler ends in an error.
C7_MalformedIsZero ==
    /\ ~last_call.raised
    /\ Accepted =>
          /\ items # <<>>
          /\ last_call.read[2] \in Malformed => items[Len(items)].qty = Zero
          /\ last_call.read[3] \in Malformed => items[Len(items)].unit = Zero
    /\ (last_call.op = "add_item" /\ ~Blank(last_call.read[1])) => Accepted
    /\ ((last_call.op = "update_totals" \/ Accepted) /\ discount_var \in Malformed) =>
          total_lbl = subtotal_lbl
    /\ (pdf_args.called /\ discount_var \in Malformed) =>
          /\ pdf_args.discount_percent = Zero
          /\ pdf.drawn
          /\ pdf.out.total_due.n = pdf.out.subtotal.n
          /\ pdf.out.total_due.d = pdf.out.subtotal.d

\* an invoice has been drawn from an item whose quantity and unit price were
\* malformed, with a malformed discount
C7_Witness ==
    /\ pdf.drawn
    /\ discount_var = <<"a", "b", "c">>
    /\ \E i \in DOMAIN items : items[i].qty = Zero /\ items[i].unit = Zero
    /\ \E i \in DOMAIN items : items[i].qty # Zero /\ items[i].unit # Zero
    /\ ~last_call.raised

\* C8: every item in the item list has qty >= 0 and unit >= 0.
C8_NonNegativeItems ==
    \A i \in DOMAIN items : items[i].qty.n >= 0 /\ items[i].unit.n >= 0

\* the listbox rows an item can have been shown as
RowsOf(it) ==
    {ListboxText(it.desc, [v |-> it.qty, isint |-> a], [v |-> it.unit, isint |-> b]) :
        a \in {x \in BOOLEAN : x => it.qty = Zero},
        b \in {x \in BOOLEAN : x => it.unit = Zero}}

\* seq2 is seq1 without its element number k (1-based)
Without(seq1, seq2, k) ==
    /\ Len(seq2) = Len(seq1) - 1
    /\ \A j \in 1..(k - 1) : seq2[j] = seq1[j]
    /\ \A j \in k..Len(seq2) : seq2[j] = seq1[j + 1]

\* seq2 is seq1 with one more element at its end
Extended(seq1, seq2) ==
    /\ Len(seq2) = Len(seq1) + 1
    /\ \A j \in 1..Len(seq1) : seq2[j] = seq1[j]

\* C10: the listbox and the item list stay in step: the same number of
\* entries, entry i of the listbox produced from item i, remove_selected
\* deletes the same index from both, and the items that remain are never
\* modified in place.
C10_ListboxInStep ==
    /\ [](/\ Len(items_list) = Len(items)
          /\ \A i \in DOMAIN items : items_list[i] \in RowsOf(items[i]))
    /\ [][/\ (last_call'.op = "remove_selected" /\ last_call'.read[1] # <<>>) =>
                /\ Without(items, items', last_call'.read[1][1] + 1)
                /\ Without(items_list, items_list', last_call'.read[1][1] + 1)
          /\ (last_call'.op = "remove_selected" /\ last_call'.read[1] = <<>>) =>
                (items' = items /\ items_list' = items_list)
          /\ (last_call'.op = "add_item") =>
                \/ (items' = items /\ items_list' = items_list)
                \/ (Extended(items, items') /\ Extended(items_list, items_list'))
          /\ (last_call'.op = "clear_items") =>
                IF last_call'.read[1]
                THEN items' = <<>> /\ items_list' = <<>>
                ELSE items' = items /\ items_list' = items_list
          /\ (last_call'.op \notin {"remove_selected", "add_item", "clear_items"}) =>
                (items' = items /\ items_list' = items_list)]_vars

\* the first of two different items has been removed and the second remains
C10_Witness ==
    /\ last_call.op = "remove_selected"
    /\ last_call.read[1] = <<0>>
    /\ Len(items) = 1
    /\ items[1].qty = Zero
    /\ items_list[1] \in RowsOf(items[1])

====
